---- MODULE Spec2Model ----
(***************************************************************************)
(* A model of js/modules/google-maps.js: the MapOptions, Geocoder and Map  *)
(* classes.  One action per handler that the event loop can run: the map   *)
(* library's load callback, create(), the two geolocation callbacks, the   *)
(* autocomplete place_changed handler, the geocoding callback (together    *)
(* with the promise reactions it schedules, which run as microtasks before *)
(* any other handler), the retry timer, the radius change listener and     *)
(* updateLocation().                                                       *)
(*                                                                         *)
(* Encoding of JavaScript values:                                          *)
(*   null / undefined object   the record Null                             *)
(*   null string               the string NullStr                          *)
(*   google.maps.LatLng        [lat |-> .., lng |-> ..]                    *)
(*   {latitude, longitude}     [latitude |-> .., longitude |-> ..]         *)
(*   a coordinate in degrees   an integer, in units of 1e-7 degree         *)
(*   a string that is parsed   a sequence of one-character strings        *)
(*   NaN                       [nan |-> TRUE, val |-> 0]                   *)
(***************************************************************************)
EXTENDS Integers, Sequences, FiniteSets, TLC

VARIABLES
    isLoaded,          \* Map._isLoaded
    zoomDeclared,      \* does the global scope hold a binding named zoom
    zoom,              \* the value of that global binding
    mapOptions,        \* Map._mapOptions: Null or the options object kept
    pc,                \* where create() stands: idle, geolocating, done, threw
    currentLocation,   \* Map._currentLocation
    gMap,              \* Map._gMap: Null or [center, zoom]
    marker,            \* Map._marker: Null or [position]
    circle,            \* Map._circle: Null or [center, radius]
    geocoder,          \* Map._geocoder: Null or [addressComponents]
    autocomplete,      \* Map._autocomplete with its place_changed listener
    radiusListener,    \* is radiusListener attached to the radius input
    autocompleteInput, \* the value of the autocomplete input element
    radiusInput,       \* the value of the radius input element
    calls,             \* the Geocoder.geocode invocations, in order
    consoleErrors,     \* what console.error has been called with
    notified,          \* what events.locationChanged has been called with
    unhandled,         \* rejected promises and errors thrown in callbacks that nobody handles
    thrown,            \* the error the last create / updateLocation call threw, "" if none
    renders            \* how many times createMap built map, marker, circle

vars == <<isLoaded, zoomDeclared, zoom, mapOptions, pc, currentLocation, gMap,
          marker, circle, geocoder, autocomplete, radiusListener,
          autocompleteInput, radiusInput, calls, consoleErrors, notified,
          unhandled, thrown, renders>>

-----------------------------------------------------------------------------
(* Bounds *)

\* Geocoder.geocode invocations (first attempts and retries) in one run.
MaxCalls == 2

-----------------------------------------------------------------------------
(* JavaScript values *)

Null == [null |-> TRUE]
NullStr == "<null>"
NaN == [nan |-> TRUE, val |-> 0]
Num(n) == [nan |-> FALSE, val |-> n]

\* One degree, in the model's unit of 1e-7 degree.
Degree == 10 * 1000 * 1000

LatLng(lat, lng) == [lat |-> lat, lng |-> lng]
Coordinate(latitude, longitude) == [latitude |-> latitude, longitude |-> longitude]
IsLatLng(location) == "lat" \in DOMAIN location

\* Truthiness of a number: 0 and NaN are falsy.
TruthyNum(n) == ~n.nan /\ n.val # 0

-----------------------------------------------------------------------------
(* parseInt, radix 10: leading blanks, an optional sign, then digits up to  *)
(* the first character that is no digit; NaN when there is no digit.        *)

Digits == <<"0", "1", "2", "3", "4", "5", "6", "7", "8", "9">>
IsDigit(c) == \E d \in 1..10 : Digits[d] = c
DigitVal(c) == (CHOOSE d \in 1..10 : Digits[d] = c) - 1

RECURSIVE SkipBlanks(_)
SkipBlanks(s) ==
    IF s # <<>> /\ Head(s) = " " THEN SkipBlanks(Tail(s)) ELSE s

RECURSIVE ParseDigits(_, _, _)
ParseDigits(s, acc, seen) ==
    IF s # <<>> /\ IsDigit(Head(s))
    THEN ParseDigits(Tail(s), acc * 10 + DigitVal(Head(s)), TRUE)
    ELSE IF seen THEN Num(acc) ELSE NaN

parseInt(str) ==
    LET s == SkipBlanks(str)
        neg == s # <<>> /\ Head(s) = "-"
        rest == IF s # <<>> /\ Head(s) \in {"-", "+"} THEN Tail(s) ELSE s
        n == ParseDigits(rest, 0, FALSE)
    IN IF n.nan THEN NaN ELSE IF neg THEN Num(0 - n.val) ELSE n

-----------------------------------------------------------------------------
(* MapOptions *)

\* A selector of the options is omitted, names no element of the document,
\* or names one.
SelectorStates == {"omitted", "unresolved", "resolved"}

Resolves(selector) == selector = "resolved"

\* A variant of the constructor that asks whether a selector is given, not
\* whether the document has an element for it.
MapOptionsConstructorNoQuery(options) ==
    IF options.selectors.map = "omitted"
    THEN "Map element selector is required!"
    ELSE IF options.selectors.country # "omitted"
            /\ options.selectors.autocomplete = "omitted"
    THEN "Autocomplete input selector is required to scope autocomplete results by country!"
    ELSE "ok"

\* MapOptions.constructor: "ok", or the error it throws.
MapOptionsConstructor(options) ==
    IF ~Resolves(options.selectors.map)
    THEN "Map element selector is required!"
    ELSE IF Resolves(options.selectors.country)
            /\ ~Resolves(options.selectors.autocomplete)
    THEN "Autocomplete input selector is required to scope autocomplete results by country!"
    ELSE "ok"

OptAutocomplete(options) == Resolves(options.selectors.autocomplete)
OptRadius(options) == Resolves(options.selectors.radius)
OptLocation(options) == options.location
DefaultZoom == 11
OptZoom(options) == IF options.zoom # 0 THEN options.zoom ELSE DefaultZoom

DefaultRadius == 5000

\* A variant of radiusInMeters that never reads the radius input.
radiusInMetersNotRead(options, inputValue) == DefaultRadius

\* get radiusInMeters: reads the radius input's value each time.
radiusInMeters(options, inputValue) ==
    IF OptRadius(options)
    THEN LET n == parseInt(inputValue)
         IN IF TruthyNum(n) THEN n.val ELSE DefaultRadius
    ELSE DefaultRadius

\* hasLocationChangedListener: "throws" when options.events is undefined
\* (a property read of undefined), else whether a function is registered.
hasLocationChangedListener(options) ==
    IF options.events = "undefined" THEN "throws"
    ELSE IF options.events = "listener" THEN "true" ELSE "false"

\* hasLocation: location, latitude and longitude all truthy.
hasLocation(options) ==
    /\ options.location # Null
    /\ options.location.latitude # 0
    /\ options.location.longitude # 0

-----------------------------------------------------------------------------
(* Map.getZoom *)

kilometersToMeters(km) == km * 1000

ZoomFor(radius) ==
    IF radius <= kilometersToMeters(10) THEN 11
    ELSE IF radius <= kilometersToMeters(20) THEN 10
    ELSE IF radius <= kilometersToMeters(40) THEN 9
    ELSE IF radius <= kilometersToMeters(75) THEN 8
    ELSE IF radius <= kilometersToMeters(100) THEN 7
    ELSE IF radius <= kilometersToMeters(200) THEN 6
    ELSE 4

\* getZoom assigns to zoom, which the method never declares.  The file is an
\* ES module and the method is in a class body, so the code is strict: the
\* assignment throws a ReferenceError unless the global scope already holds a
\* binding named zoom.
getZoomThrows == ~zoomDeclared

\* A variant of getZoom that answers the default zoom whatever the radius.
getZoomDefault(options, inputValue) == DefaultZoom

getZoom(options, inputValue) == ZoomFor(radiusInMeters(options, inputValue))

-----------------------------------------------------------------------------
(* Map.currentLocation (setter) *)

ToLatLng(location) ==
    IF IsLatLng(location) THEN location
    ELSE LatLng(location.latitude, location.longitude)

\* A variant of setPosition that leaves the marker where it was.
setPositionSkipped(target, location) == target

\* A variant of setCenter that leaves the center where it was.
setCenterSkipped(target, location) == target

\* setCenter of the map and of the circle, setPosition of the marker.
setCenter(target, location) == [target EXCEPT !.center = location]
setPosition(target, location) == [target EXCEPT !.position = location]

-----------------------------------------------------------------------------
(* Geocoder *)

NullName == [longName |-> NullStr, shortName |-> NullStr]

\* The object the setter starts from; formattedAddress is assigned last.
EmptyAddressComponents ==
    [postalCode |-> NullName, streetNumber |-> NullName, streetName |-> NullName,
     city |-> NullName, district |-> NullName, stateOrProvince |-> NullName,
     country |-> NullName, formattedAddress |-> NullStr]

\* The if / else-if chain of the setter's loop body: the one slot a component
\* is written to, or "none".
SlotOf(component) ==
    IF "postal_code" \in component.types THEN "postalCode"
    ELSE IF "street_number" \in component.types THEN "streetNumber"
    ELSE IF "route" \in component.types THEN "streetName"
    ELSE IF "locality" \in component.types THEN "city"
    ELSE IF "sublocality" \in component.types THEN "district"
    ELSE IF "administrative_area_level_1" \in component.types THEN "stateOrProvince"
    ELSE IF "country" \in component.types THEN "country"
    ELSE "none"

\* The loop runs i from the last component down to the first.
RECURSIVE ComponentsLoop(_, _, _)
ComponentsLoop(components, i, acc) ==
    IF i < 1 THEN acc
    ELSE LET component == components[i]
             slot == SlotOf(component)
             next == IF slot = "none" THEN acc
                     ELSE [acc EXCEPT ![slot] =
                              [longName |-> component.long_name,
                               shortName |-> component.short_name]]
         IN ComponentsLoop(components, i - 1, next)

\* set addressComponents(results)
SetAddressComponents(results) ==
    LET first == results[1]
        filled == ComponentsLoop(first.address_components,
                                 Len(first.address_components),
                                 EmptyAddressComponents)
    IN [filled EXCEPT !.formattedAddress = first.formatted_address]

\* get formattedAddress
FormattedAddress(addressComponents) ==
    IF addressComponents = Null THEN ""
    ELSE IF addressComponents.formattedAddress \in {NullStr, ""} THEN ""
    ELSE addressComponents.formattedAddress

StatusOK == "OK"
StatusOverQueryLimit == "OVER_QUERY_LIMIT"

\* A variant of Outcome that retries on every status but OK.
OutcomeRetryAlways(response) ==
    IF response.status = StatusOK /\ Len(response.results) > 0 THEN "resolve"
    ELSE "retry"

\* The three branches of the callback geocode hands to the provider.
Outcome(response) ==
    IF response.status = StatusOK /\ Len(response.results) > 0 THEN "resolve"
    ELSE IF response.status = StatusOverQueryLimit THEN "retry"
    ELSE "reject"
\* Statuses of the provider that are neither OK nor OVER_QUERY_LIMIT.
ErrorStatuses == {"REQUEST_DENIED"}

-----------------------------------------------------------------------------
(* The inputs the environment supplies *)

Component(types, short, long) ==
    [types |-> types, short_name |-> short, long_name |-> long]

ResultAccra ==
    [address_components |->
        << Component({"route"}, "Oxford St", "Oxford Street"),
           Component({"locality", "political"}, "Accra", "Accra"),
           Component({"country", "political"}, "GH", "Ghana") >>,
     formatted_address |-> "Oxford St, Accra, Ghana"]

ResultKumasi ==
    [address_components |->
        << Component({"postal_code"}, "AK-039", "AK-039"),
           Component({"locality", "political"}, "Kumasi", "Kumasi"),
           Component({"administrative_area_level_1", "political"}, "AH", "Ashanti Region"),
           Component({"country", "political"}, "GH", "Ghana") >>,
     formatted_address |-> "Kumasi, Ghana"]

\* The results arrays a response can carry.
ResultLists == { <<>>, <<ResultAccra>>, <<ResultKumasi, ResultAccra>> }

\* The responses of the geocoding provider.
Responses ==
    [status : {StatusOK}, results : ResultLists]
    \cup [status : {StatusOverQueryLimit} \cup ErrorStatuses, results : {<<>>}]

\* Coordinates of places, of device positions and of updateLocation calls.
Places == { LatLng(1 * Degree, 1 * Degree), LatLng(2 * Degree, 0) }

\* The hardcoded default of getLocationError.
DefaultLocation == Coordinate(56044018, -1218899)

\* The values the radius input can hold.
RadiusValues ==
    { <<"k", "m">>,
      <<"1", "5", "0", "0", "0">>,
      <<" ", "2", "5", "0", "0", "0", "0", "m">> }

\* The option objects create() is called with.
OptionObjects ==
    [selectors : [map : {"omitted", "resolved"},
                  autocomplete : {"omitted", "resolved"},
                  radius : {"omitted", "resolved"},
                  country : {"omitted"}],
     location : {Null, Coordinate(1 * Degree, 1 * Degree), Coordinate(0, 3 * Degree)},
     zoom : {0},
     events : {"undefined", "empty", "listener"}]

-----------------------------------------------------------------------------
(* Geocoder.geocode: the promise of one invocation and its provider request *)

\* A new invocation: the promise is pending and the request is with the
\* provider.  handlers: did the caller attach reactions with then();
\* retryOf: the invocation whose timer made this one, 0 for a caller's.
NewCall(location, handlers, retryOf) ==
    [location |-> location, request |-> "inflight", response |-> Null,
     promise |-> "pending", value |-> Null, reason |-> "",
     handlers |-> handlers, retryOf |-> retryOf]

ReferenceError == "ReferenceError: zoom is not defined"
TypeErrorEvents == "TypeError: cannot read property locationChanged of undefined"
TypeErrorGMap == "TypeError: cannot read property setCenter of null"
NotLoadedError == "Map library not loaded!"

\* An error no handler receives: thrown in a callback, or the reason of a
\* rejected promise without a rejection handler (call: the geocode
\* invocation it belongs to, 0 when none).
Uncaught(error, call) == [error |-> error, call |-> call]

\* Timers of rate-limited invocations that have yet to fire.
Waiting == {i \in 1..Len(calls) : calls[i].request = "waiting"}

\* Room for one more invocation, every pending timer keeping its own.
CanCall == Len(calls) + Cardinality(Waiting) < MaxCalls

-----------------------------------------------------------------------------
(* Initial state: the module's  let map = new Map()  *)

Init ==
    /\ isLoaded = FALSE
    /\ zoomDeclared \in BOOLEAN
    /\ zoom = 0
    /\ mapOptions = Null
    /\ pc = "idle"
    /\ currentLocation = Null
    /\ gMap = Null
    /\ marker = Null
    /\ circle = Null
    /\ geocoder = Null
    /\ autocomplete = FALSE
    /\ radiusListener = FALSE
    /\ autocompleteInput = ""
    /\ radiusInput = <<>>
    /\ calls = <<>>
    /\ consoleErrors = <<>>
    /\ notified = <<>>
    /\ unhandled = {}
    /\ thrown = ""
    /\ renders = 0

-----------------------------------------------------------------------------
(* Map.mapLoadedListener *)

mapLoadedListener ==
    /\ isLoaded' = TRUE
    /\ UNCHANGED <<zoomDeclared, zoom, mapOptions, pc, currentLocation, gMap,
                   marker, circle, geocoder, autocomplete, radiusListener,
                   autocompleteInput, radiusInput, calls, consoleErrors,
                   notified, unhandled, thrown, renders>>

-----------------------------------------------------------------------------
(* Map.create and its nested functions *)

\* A variant of LibraryLoaded that takes the map library for loaded.
LibraryLoadedAssumed == TRUE

\* get isLoaded
LibraryLoaded == isLoaded

\* The zoom createMap passes to the map:  self.getZoom() || self.mapOptions.zoom
CreateMapZoom(options, inputValue) ==
    IF getZoom(options, inputValue) # 0
    THEN getZoom(options, inputValue)
    ELSE OptZoom(options)

\* createMap, with addCircle, setupAutocompleteListener and
\* registerRadiusInputListener, run with self.currentLocation = location.
\* getZoom is evaluated while the options of the map are built, so when it
\* throws nothing has been constructed.
createMap(options, inputValue, location) ==
    IF getZoomThrows
    THEN /\ pc' = "threw"
         /\ UNCHANGED <<zoom, gMap, marker, circle, geocoder, autocomplete,
                        radiusListener, renders>>
    ELSE /\ pc' = "done"
         /\ zoom' = getZoom(options, inputValue)
         /\ gMap' = [center |-> location,
                     zoom |-> CreateMapZoom(options, inputValue)]
         /\ marker' = [position |-> location]
         /\ geocoder' = [addressComponents |-> Null]
         /\ circle' = [center |-> location,
                       radius |-> radiusInMeters(options, inputValue)]
         /\ autocomplete' = OptAutocomplete(options)
         /\ radiusListener' = OptRadius(options)
         /\ renders' = renders + 1

\* create(options).  inputValue is what the radius input holds when the
\* document has one; geolocation tells whether navigator.geolocation exists.
\* options is a plain object, so the mapOptions setter always constructs a
\* MapOptions from it, and does so before isLoaded is looked at.
create(options, inputValue, geolocation) ==
    /\ pc = "idle"
    /\ UNCHANGED <<isLoaded, zoomDeclared, autocompleteInput, calls,
                   consoleErrors, notified, unhandled>>
    /\ IF MapOptionsConstructor(options) # "ok"
       THEN /\ thrown' = MapOptionsConstructor(options)
            /\ UNCHANGED <<zoom, mapOptions, pc, currentLocation, gMap, marker,
                           circle, geocoder, autocomplete, radiusListener,
                           radiusInput, renders>>
       ELSE /\ mapOptions' = options
            /\ radiusInput' = IF OptRadius(options) THEN inputValue ELSE <<>>
            /\ IF ~LibraryLoaded
               THEN /\ thrown' = NotLoadedError
                    /\ UNCHANGED <<zoom, pc, currentLocation, gMap, marker,
                                   circle, geocoder, autocomplete,
                                   radiusListener, renders>>
               ELSE IF ~hasLocation(options)
               THEN IF geolocation
                    THEN \* getCurrentPosition(geoLocationSuccess, getLocationError)
                         /\ pc' = "geolocating"
                         /\ thrown' = ""
                         /\ UNCHANGED <<zoom, currentLocation, gMap, marker,
                                        circle, geocoder, autocomplete,
                                        radiusListener, renders>>
                    ELSE \* getLocationError()
                         /\ currentLocation' = ToLatLng(DefaultLocation)
                         /\ createMap(options, radiusInput', currentLocation')
                         /\ thrown' = IF getZoomThrows THEN ReferenceError ELSE ""
               ELSE /\ currentLocation' = ToLatLng(OptLocation(options))
                    /\ createMap(options, radiusInput', currentLocation')
                    /\ thrown' = IF getZoomThrows THEN ReferenceError ELSE ""

\* geoLocationSuccess(position), called back by the device.
geoLocationSuccess(position) ==
    /\ pc = "geolocating"
    /\ currentLocation' = ToLatLng(position)
    /\ createMap(mapOptions, radiusInput, currentLocation')
    /\ unhandled' = IF getZoomThrows
                    THEN unhandled \cup {Uncaught(ReferenceError, 0)}
                    ELSE unhandled
    /\ UNCHANGED <<isLoaded, zoomDeclared, mapOptions, autocompleteInput,
                   radiusInput, calls, consoleErrors, notified, thrown>>

\* getLocationError, called back by the device.
getLocationError ==
    /\ pc = "geolocating"
    /\ currentLocation' = ToLatLng(DefaultLocation)
    /\ createMap(mapOptions, radiusInput, currentLocation')
    /\ unhandled' = IF getZoomThrows
                    THEN unhandled \cup {Uncaught(ReferenceError, 0)}
                    ELSE unhandled
    /\ UNCHANGED <<isLoaded, zoomDeclared, mapOptions, autocompleteInput,
                   radiusInput, calls, consoleErrors, notified, thrown>>

-----------------------------------------------------------------------------
(* autocompleteHandler: the place_changed listener.  geometry is Null when *)
(* the place has none, else its location, a LatLng.                        *)

\* A variant of the handler that, for a place without geometry, looks up the
\* address of the coordinate the widget is at.
autocompleteHandlerLookup(geometry) ==
    /\ autocomplete
    /\ CanCall
    /\ gMap' = IF geometry = Null THEN gMap ELSE setCenter(gMap, geometry)
    /\ marker' = IF geometry = Null THEN marker ELSE setPosition(marker, geometry)
    /\ circle' = IF geometry = Null THEN circle ELSE setCenter(circle, geometry)
    /\ currentLocation' = IF geometry = Null THEN currentLocation
                          ELSE ToLatLng(geometry)
    /\ calls' = Append(calls, NewCall(currentLocation', TRUE, 0))
    /\ UNCHANGED <<isLoaded, zoomDeclared, zoom, mapOptions, pc, geocoder,
                   autocomplete, radiusListener, autocompleteInput,
                   radiusInput, consoleErrors, notified, unhandled, thrown,
                   renders>>

autocompleteHandler(geometry) ==
    /\ autocomplete
    /\ IF geometry = Null
       THEN UNCHANGED vars
       ELSE /\ CanCall
            /\ gMap' = setCenter(gMap, geometry)
            /\ marker' = setPosition(marker, geometry)
            /\ circle' = setCenter(circle, geometry)
            /\ currentLocation' = ToLatLng(geometry)
            \* self._geocoder.geocode({location}).then(onFulfilled, onRejected)
            /\ calls' = Append(calls, NewCall(geometry, TRUE, 0))
            /\ UNCHANGED <<isLoaded, zoomDeclared, zoom, mapOptions, pc,
                           geocoder, autocomplete, radiusListener,
                           autocompleteInput, radiusInput, consoleErrors,
                           notified, unhandled, thrown, renders>>

-----------------------------------------------------------------------------
(* The callback Geocoder.geocode hands to the provider, for invocation i,  *)
(* and the promise reactions it triggers.                                  *)

\* A variant of the fulfilment reaction that drops the answer of an
\* invocation made for a coordinate the widget has left since.
OnFulfilledIfCurrent(i) ==
    IF calls[i].location # currentLocation
    THEN UNCHANGED <<autocompleteInput, consoleErrors, notified, unhandled>>
    ELSE /\ autocompleteInput' = FormattedAddress(geocoder'.addressComponents)
         /\ IF hasLocationChangedListener(mapOptions) = "throws"
            THEN /\ unhandled' = unhandled \cup {Uncaught(TypeErrorEvents, i)}
                 /\ UNCHANGED notified
            ELSE IF hasLocationChangedListener(mapOptions) = "true"
            THEN /\ notified' = Append(notified, geocoder'.addressComponents)
                 /\ UNCHANGED unhandled
            ELSE UNCHANGED <<notified, unhandled>>
         /\ UNCHANGED consoleErrors

\* A variant of the fulfilment reaction that sees the geocoder as it was
\* before the provider's callback stored this response.
OnFulfilledStale(i) ==
    /\ autocompleteInput' = FormattedAddress(geocoder.addressComponents)
    /\ IF hasLocationChangedListener(mapOptions) = "throws"
       THEN /\ unhandled' = unhandled \cup {Uncaught(TypeErrorEvents, i)}
            /\ UNCHANGED notified
       ELSE IF hasLocationChangedListener(mapOptions) = "true"
       THEN /\ notified' = Append(notified, geocoder.addressComponents)
            /\ UNCHANGED unhandled
       ELSE UNCHANGED <<notified, unhandled>>
    /\ UNCHANGED consoleErrors

\* The fulfilment reaction of autocompleteHandler: it reads the geocoder.
OnFulfilled(i) ==
    /\ autocompleteInput' = FormattedAddress(geocoder'.addressComponents)
    /\ IF hasLocationChangedListener(mapOptions) = "throws"
       THEN \* the reaction throws: the promise then() returned is rejected
            /\ unhandled' = unhandled \cup {Uncaught(TypeErrorEvents, i)}
            /\ UNCHANGED notified
       ELSE IF hasLocationChangedListener(mapOptions) = "true"
       THEN /\ notified' = Append(notified, geocoder'.addressComponents)
            /\ UNCHANGED unhandled
       ELSE UNCHANGED <<notified, unhandled>>
    /\ UNCHANGED consoleErrors

\* The rejection reaction of autocompleteHandler.
OnRejected(status) ==
    /\ consoleErrors' = Append(consoleErrors, status)
    /\ UNCHANGED <<autocompleteInput, notified, unhandled>>

geocodeCallback(i, response) ==
    /\ i \in 1..Len(calls)
    /\ calls[i].request = "inflight"
    /\ IF Outcome(response) = "resolve"
       THEN /\ geocoder' = [geocoder EXCEPT !.addressComponents =
                                SetAddressComponents(response.results)]
            /\ calls' = [calls EXCEPT ![i] =
                            [@ EXCEPT !.request = "answered",
                                      !.response = response,
                                      !.promise = "fulfilled",
                                      !.value = geocoder'.addressComponents]]
            /\ IF calls[i].handlers
               THEN OnFulfilled(i)
               ELSE UNCHANGED <<autocompleteInput, consoleErrors, notified,
                                unhandled>>
       ELSE IF Outcome(response) = "retry"
       THEN \* setTimeout(function () { self.geocode(options); }, 1e3)
            /\ CanCall
            /\ calls' = [calls EXCEPT ![i] =
                            [@ EXCEPT !.request = "waiting",
                                      !.response = response]]
            /\ UNCHANGED <<geocoder, autocompleteInput, consoleErrors,
                           notified, unhandled>>
       ELSE /\ calls' = [calls EXCEPT ![i] =
                            [@ EXCEPT !.request = "answered",
                                      !.response = response,
                                      !.promise = "rejected",
                                      !.reason = response.status]]
            /\ UNCHANGED geocoder
            /\ IF calls[i].handlers
               THEN OnRejected(response.status)
               ELSE /\ unhandled' =
                          unhandled \cup {Uncaught(response.status, i)}
                    /\ UNCHANGED <<autocompleteInput, consoleErrors, notified>>
    /\ UNCHANGED <<isLoaded, zoomDeclared, zoom, mapOptions, pc,
                   currentLocation, gMap, marker, circle, autocomplete,
                   radiusListener, radiusInput, thrown, renders>>

\* A variant of RetryOptions that geocodes where the widget is now.
RetryOptionsCurrent(i) == currentLocation

\* The options the timer function passes on: those of the invocation that
\* set the timer, which it closes over.
RetryOptions(i) == calls[i].location

\* The timer of a rate-limited invocation fires:  self.geocode(options).
\* The promise of the new invocation is dropped by the timer function.
retryTimer(i) ==
    /\ i \in Waiting
    /\ calls' = Append([calls EXCEPT ![i].request = "retried"],
                       NewCall(RetryOptions(i), FALSE, i))
    /\ UNCHANGED <<isLoaded, zoomDeclared, zoom, mapOptions, pc,
                   currentLocation, gMap, marker, circle, geocoder,
                   autocomplete, radiusListener, autocompleteInput,
                   radiusInput, consoleErrors, notified, unhandled, thrown,
                   renders>>

-----------------------------------------------------------------------------
(* The radius input changes to inputValue and fires its change event:      *)
(* radiusListener with updateCircleRadius, when it is attached.            *)

radiusChange(inputValue) ==
    /\ mapOptions # Null
    /\ OptRadius(mapOptions)
    /\ radiusInput' = inputValue
    /\ IF radiusListener
       THEN /\ circle' = [circle EXCEPT
                             !.radius = radiusInMeters(mapOptions, inputValue)]
            /\ IF getZoomThrows
               THEN /\ unhandled' = unhandled \cup {Uncaught(ReferenceError, 0)}
                    /\ UNCHANGED <<zoom, gMap>>
               ELSE /\ zoom' = getZoom(mapOptions, inputValue)
                    /\ gMap' = [gMap EXCEPT !.zoom = zoom']
                    /\ UNCHANGED unhandled
       ELSE UNCHANGED <<circle, zoom, gMap, unhandled>>
    /\ UNCHANGED <<isLoaded, zoomDeclared, mapOptions, pc, currentLocation,
                   marker, geocoder, autocomplete, radiusListener,
                   autocompleteInput, calls, consoleErrors, notified, thrown,
                   renders>>

-----------------------------------------------------------------------------
(* Map.updateLocation(location): a LatLng or a {latitude, longitude}       *)

updateLocation(location) ==
    /\ currentLocation' = ToLatLng(location)
    /\ IF gMap = Null
       THEN \* self._gMap.setCenter on null
            /\ thrown' = TypeErrorGMap
            /\ UNCHANGED <<gMap, marker, circle>>
       ELSE /\ thrown' = ""
            /\ gMap' = setCenter(gMap, currentLocation')
            /\ marker' = IF marker # Null
                         THEN setPosition(marker, currentLocation')
                         ELSE marker
            /\ circle' = IF circle # Null
                         THEN setCenter(circle, currentLocation')
                         ELSE circle
    /\ UNCHANGED <<isLoaded, zoomDeclared, zoom, mapOptions, pc, geocoder,
                   autocomplete, radiusListener, autocompleteInput,
                   radiusInput, calls, consoleErrors, notified, unhandled,
                   renders>>

-----------------------------------------------------------------------------

\* Arguments of updateLocation: LatLng objects and plain coordinates.
UpdateArguments ==
    { LatLng(2 * Degree, 0), Coordinate(3 * Degree, 3 * Degree) }

Next ==
    \/ mapLoadedListener
    \/ \E options \in OptionObjects, inputValue \in RadiusValues,
          geolocation \in BOOLEAN :
          create(options, inputValue, geolocation)
    \/ \E position \in Places :
          geoLocationSuccess(Coordinate(position.lat, position.lng))
    \/ getLocationError
    \/ \E geometry \in Places \cup {Null} : autocompleteHandler(geometry)
    \/ \E i \in 1..MaxCalls, response \in Responses : geocodeCallback(i, response)
    \/ \E i \in 1..MaxCalls : retryTimer(i)
    \/ \E inputValue \in RadiusValues : radiusChange(inputValue)
    \/ \E location \in UpdateArguments : updateLocation(location)

Spec == Init /\ [][Next]_vars

-----------------------------------------------------------------------------
(* Vocabulary of the properties *)

\* The invocation a caller made from which invocation i descends by retries.
RECURSIVE Origin(_)
Origin(i) == IF calls[i].retryOf = 0 THEN i ELSE Origin(calls[i].retryOf)

\* The provider's answer to invocation i arrives in this step.
Answers(i) == calls[i].request = "inflight" /\ calls'[i].request # "inflight"

\* A response that is neither a success nor a rate limit.
Failure(response) ==
    \/ response.status \notin {StatusOK, StatusOverQueryLimit}
    \/ response.status = StatusOK /\ response.results = <<>>

\* The record a successful response must produce.
Resolved(response) == SetAddressComponents(response.results)

\* createMap builds map, marker and circle in this step.
RenderStep == renders' = renders + 1

\* The state the spec calls Ready.
Ready ==
    /\ pc = "done"
    /\ gMap # Null /\ marker # Null /\ circle # Null /\ geocoder # Null
    /\ autocomplete <=> mapOptions.selectors.autocomplete = "resolved"
    /\ radiusListener <=> mapOptions.selectors.radius = "resolved"

\* What the radius input's value reads as, for the values of RadiusValues.
ReadsAs(inputValue) ==
    CASE inputValue = <<"k", "m">> -> 5000
      [] inputValue = <<"1", "5", "0", "0", "0">> -> 15000
      [] inputValue = <<" ", "2", "5", "0", "0", "0", "0", "m">> -> 250000

\* The radius the widget must use, and the zoom the spec's table gives it.
ExpectedRadius(options, inputValue) ==
    IF options.selectors.radius = "resolved" THEN ReadsAs(inputValue) ELSE 5000

ExpectedZoom(radius) ==
    CASE radius = 5000 -> 11
      [] radius = 15000 -> 10
      [] radius = 250000 -> 4

-----------------------------------------------------------------------------
(* C1 *)

\* C1: when the provider has answered k >= 1 times OVER_QUERY_LIMIT and then
\* once otherwise, the promise of the caller's invocation is settled with that
\* last outcome: fulfilled with its address components, or rejected with its
\* status.  (Stated at the moment the last answer is in; the code fails it.)
ClaimC1_RetrySettlesOriginalPromise ==
    \A j \in 1..Len(calls) :
        (calls[j].retryOf # 0 /\ calls[j].request = "answered") =>
            IF Outcome(calls[j].response) = "resolve"
            THEN /\ calls[Origin(j)].promise = "fulfilled"
                 /\ calls[Origin(j)].value = Resolved(calls[j].response)
            ELSE /\ calls[Origin(j)].promise = "rejected"
                 /\ calls[Origin(j)].reason = calls[j].response.status

-----------------------------------------------------------------------------
(* C2 *)

\* C2: when a place selection's geocode is answered OVER_QUERY_LIMIT once and
\* then OK with results, the step that takes the second answer leaves
\* addressComponents built from that answer and the autocomplete input equal
\* to its formatted address.
ClaimC2_RetryThenOkUpdatesInput ==
    [][\A j \in 1..Len(calls) :
          (/\ Answers(j)
           /\ calls[j].retryOf # 0
           /\ calls[calls[j].retryOf].retryOf = 0
           /\ calls[calls[j].retryOf].handlers
           /\ Outcome(calls'[j].response) = "resolve")
          => /\ geocoder'.addressComponents = Resolved(calls'[j].response)
             /\ autocompleteInput' =
                    calls'[j].response.results[1].formatted_address]_vars

-----------------------------------------------------------------------------
(* C3 *)

\* C3: once the map is rendered, in every state between two handlers the map
\* center, the marker position and the circle center equal currentLocation.
C3_VisualsFollowCurrentLocation ==
    gMap # Null =>
        /\ gMap.center = currentLocation
        /\ marker.position = currentLocation
        /\ circle.center = currentLocation

\* A rendered widget whose location was moved by updateLocation while a
\* geocode of an earlier place selection is still in flight.
C3_Witness ==
    /\ gMap # Null
    /\ marker.position = LatLng(3 * Degree, 3 * Degree)
    /\ \E i \in 1..Len(calls) :
          /\ calls[i].request = "inflight"
          /\ calls[i].location # currentLocation

-----------------------------------------------------------------------------
(* C4 *)

\* C4: the step that ends create's work (synchronously, or in a geolocation
\* callback) is the one render of the widget, and it is centered on the
\* config's location when hasLocation is true (0 counts as absent), else on
\* the device position or, without one, on the default (5.6044018, -0.1218899).
ClaimC4_RendersExactlyOnce ==
    [][(pc # pc' /\ pc' \in {"done", "threw"}) =>
          /\ renders' = 1
          /\ gMap'.center = currentLocation'
          /\ marker'.position = currentLocation'
          /\ circle'.center = currentLocation'
          /\ IF /\ mapOptions'.location # Null
                /\ mapOptions'.location.latitude # 0
                /\ mapOptions'.location.longitude # 0
             THEN currentLocation' = LatLng(mapOptions'.location.latitude,
                                            mapOptions'.location.longitude)
             ELSE IF pc = "geolocating"
             THEN currentLocation' \in Places \cup {LatLng(56044018, -1218899)}
             ELSE currentLocation' = LatLng(56044018, -1218899)]_vars

-----------------------------------------------------------------------------
(* C5 *)

\* C5: a create call that passed validation ends Ready on every path: the
\* widget is never left with create's work over and nothing rendered.
ClaimC5_InitializationCompletes ==
    pc \in {"idle", "geolocating"} \/ Ready

-----------------------------------------------------------------------------
(* C6 *)

\* C6: the step in which create completes leaves the map zoom at the table's
\* zoom for the radius read from the radius input (5000 and zoom 11 without a
\* radius binding), the circle radius at that radius, map, marker and circle
\* centered on the resolved coordinate, a radius listener attached iff the
\* radius binding resolves and an autocomplete handler iff the autocomplete
\* binding resolves.
C6_RenderedAsConfigured ==
    [][RenderStep =>
          /\ pc' = "done"
          /\ circle'.radius = ExpectedRadius(mapOptions', radiusInput')
          /\ gMap'.zoom = ExpectedZoom(ExpectedRadius(mapOptions', radiusInput'))
          /\ gMap'.center = currentLocation'
          /\ marker'.position = currentLocation'
          /\ circle'.center = currentLocation'
          /\ radiusListener' <=> mapOptions'.selectors.radius = "resolved"
          /\ autocomplete' <=> mapOptions'.selectors.autocomplete = "resolved"]_vars

\* create has completed with a radius binding that reads 15000 and without an
\* autocomplete binding (nothing but create has touched the widget).
C6_Witness ==
    /\ pc = "done"
    /\ mapOptions.selectors.radius = "resolved"
    /\ mapOptions.selectors.autocomplete = "omitted"
    /\ radiusInput = <<"1", "5", "0", "0", "0">>
    /\ circle.radius = 15000
    /\ gMap.zoom = 10
    /\ radiusListener
    /\ ~autocomplete

-----------------------------------------------------------------------------
(* C7 *)

\* C7: when the first answer to a place selection's geocode is a success, the
\* autocomplete input takes the answer's formatted address; a registered
\* listener is called once with the resolved components; without one (also
\* without any events object) nothing is called and no error is raised.
ClaimC7_SuccessContinuation ==
    [][\A i \in 1..Len(calls) :
          (/\ Answers(i)
           /\ calls[i].retryOf = 0
           /\ calls[i].handlers
           /\ Outcome(calls'[i].response) = "resolve")
          => /\ autocompleteInput' =
                    calls'[i].response.results[1].formatted_address
             /\ IF mapOptions.events = "listener"
                THEN notified' = Append(notified, Resolved(calls'[i].response))
                ELSE notified' = notified
             /\ unhandled' = unhandled]_vars

-----------------------------------------------------------------------------
(* C8 *)

\* No invocation is the retry of one that was answered with a failure.
NoRetryOfFailure ==
    \A j \in 1..Len(calls) :
        calls[j].retryOf # 0 => ~Failure(calls[calls[j].retryOf].response)

\* C8: an invocation answered with a status that is neither OK nor
\* OVER_QUERY_LIMIT, or with OK and no result, rejects its promise with that
\* status in the same step, starts no timer and no request, then or later, and
\* leaves the stored addressComponents as they were.
C8_FailureRejectsWithoutRetry ==
    [][\A i \in 1..Len(calls) :
          (Answers(i) /\ Failure(calls'[i].response))
          => /\ calls'[i].request = "answered"
             /\ calls'[i].promise = "rejected"
             /\ calls'[i].reason = calls'[i].response.status
             /\ Len(calls') = Len(calls)
             /\ Waiting' = Waiting
             /\ geocoder' = geocoder
             /\ NoRetryOfFailure']_vars

\* A failure arrived after an earlier geocode had stored address components.
C8_Witness ==
    /\ geocoder # Null
    /\ geocoder.addressComponents # Null
    /\ \E i \in 1..Len(calls) :
          /\ calls[i].request = "answered"
          /\ Failure(calls[i].response)
          /\ calls[i].promise = "rejected"
          /\ \E j \in 1..(i - 1) : calls[j].promise = "fulfilled"

-----------------------------------------------------------------------------
(* C9 *)

\* C9: when the geocode of a place selection ends in a failure (on the first
\* answer or after rate-limited retries), the status is passed to
\* console.error and addressComponents, the autocomplete input and the
\* listener are left alone.
ClaimC9_FailureIsReported ==
    [][\A j \in 1..Len(calls) :
          (/\ Answers(j)
           /\ calls[Origin(j)].handlers
           /\ Outcome(calls'[j].response) = "reject")
          => /\ consoleErrors' = Append(consoleErrors, calls'[j].response.status)
             /\ geocoder' = geocoder
             /\ autocompleteInput' = autocompleteInput
             /\ notified' = notified]_vars

-----------------------------------------------------------------------------
(* C10 *)

\* C10 (the part about promises): no promise of a geocode is rejected without
\* a rejection handler, and no reaction of one throws.
ClaimC10_NoUnhandledRejection ==
    \A u \in unhandled : u.call = 0

-----------------------------------------------------------------------------
(* C11 *)

RateLimited == [status |-> StatusOverQueryLimit, results |-> <<>>]

\* The invocations the timer of invocation i has made.
RetriesOf(i) == {j \in 1..Len(calls) : calls[j].retryOf = i}

-----------------------------------------------------------------------------
(* C12 *)

\* C12: the radius listener, run on the radius input's new value, sets the
\* circle radius to what that value reads as and the map zoom to the table's
\* zoom for it; currentLocation, the three centers, addressComponents and the
\* autocomplete input stay as they were and no geocode is requested.
C12_RadiusChangeFrame ==
    [][\A inputValue \in RadiusValues :
          (radiusListener /\ radiusChange(inputValue))
          => /\ circle'.radius = ReadsAs(inputValue)
             /\ gMap'.zoom = ExpectedZoom(ReadsAs(inputValue))
             /\ gMap'.center = gMap.center
             /\ circle'.center = circle.center
             /\ UNCHANGED <<currentLocation, marker, geocoder,
                            autocompleteInput, calls, notified,
                            consoleErrors>>]_vars

\* The radius reads 250000 while a place selection's geocode is in flight.
C12_Witness ==
    /\ radiusListener
    /\ radiusInput = <<" ", "2", "5", "0", "0", "0", "0", "m">>
    /\ circle.radius = 250000
    /\ gMap.zoom = 4
    /\ \E i \in 1..Len(calls) : calls[i].request = "inflight"

-----------------------------------------------------------------------------
(* C13 *)

\* The LatLng an argument of updateLocation stands for.
AsLatLng(location) ==
    CASE location = [lat |-> 20000000, lng |-> 0] -> [lat |-> 20000000, lng |-> 0]
      [] location = [latitude |-> 30000000, longitude |-> 30000000]
            -> [lat |-> 30000000, lng |-> 30000000]

\* C13: updateLocation(c) on a rendered widget, whatever its state, sets
\* currentLocation, the map center, the marker position and the circle center
\* to c, and leaves the circle radius, the map zoom, addressComponents and the
\* autocomplete input as they were and requests no geocode.  The centers it
\* leaves depend on c alone, so a second call with the same c changes nothing.
C13_UpdateLocationFrame ==
    [][\A location \in UpdateArguments :
          (gMap # Null /\ updateLocation(location))
          => /\ currentLocation' = AsLatLng(location)
             /\ gMap'.center = AsLatLng(location)
             /\ marker'.position = AsLatLng(location)
             /\ circle'.center = AsLatLng(location)
             /\ circle'.radius = circle.radius
             /\ gMap'.zoom = gMap.zoom
             /\ thrown' = ""
             /\ UNCHANGED <<geocoder, autocompleteInput, radiusInput, calls,
                            notified, consoleErrors>>]_vars

\* updateLocation({latitude: 3, longitude: 3}) has run on a widget that holds
\* the address of an earlier place selection.
C13_Witness ==
    /\ gMap # Null
    /\ currentLocation = LatLng(3 * Degree, 3 * Degree)
    /\ circle.center = LatLng(3 * Degree, 3 * Degree)
    /\ geocoder.addressComponents # Null
    /\ thrown = ""

-----------------------------------------------------------------------------
(* C14 *)

\* An options object the MapOptions constructor must accept.
ValidConfig(options) ==
    /\ options.selectors.map = "resolved"
    /\ ~(/\ options.selectors.country = "resolved"
         /\ options.selectors.autocomplete # "resolved")

\* C14: create with a valid config before the map library has loaded throws
\* "Map library not loaded!", asks for no device position, and leaves
\* currentLocation, map, marker, circle, geocoder and both listeners as they
\* were: absent.
C14_NotLoadedNoEffect ==
    [][(~isLoaded /\ pc = "idle") =>
          \A options \in OptionObjects :
             (/\ ValidConfig(options)
              /\ mapOptions' = options
              /\ \E inputValue \in RadiusValues, geolocation \in BOOLEAN :
                    create(options, inputValue, geolocation))
             => /\ thrown' = "Map library not loaded!"
                /\ pc' = "idle"
                /\ gMap' = Null /\ marker' = Null /\ circle' = Null
                /\ geocoder' = Null
                /\ ~autocomplete' /\ ~radiusListener'
                /\ renders' = 0
                /\ UNCHANGED <<currentLocation, calls, zoom>>]_vars

\* create has thrown for want of the map library, the options kept.
C14_Witness ==
    /\ ~isLoaded
    /\ thrown = NotLoadedError
    /\ mapOptions # Null
    /\ mapOptions.location # Null
    /\ currentLocation = Null
    /\ gMap = Null

-----------------------------------------------------------------------------
(* C15: config construction, over every combination of the bindings *)

\* Option objects with each of the map, autocomplete and country selectors
\* omitted, unresolvable or resolvable.
AllOptionObjects ==
    [selectors : [map : SelectorStates,
                  autocomplete : SelectorStates,
                  radius : {"omitted", "resolved"},
                  country : SelectorStates],
     location : {Null, Coordinate(1 * Degree, 1 * Degree)},
     zoom : {0},
     events : {"empty"}]

NextConfig ==
    \/ mapLoadedListener
    \/ \E options \in AllOptionObjects, geolocation \in BOOLEAN :
          create(options, <<"k", "m">>, geolocation)

SpecConfig == Init /\ [][NextConfig]_vars

\* C15: create throws "Map element selector is required!" and keeps no
\* options when the map selector is omitted or resolves to nothing; throws
\* "Autocomplete input selector is required ..." when the country selector
\* resolves and the autocomplete selector does not; and for every other
\* combination, country and autocomplete both resolvable included, constructs
\* the options and throws neither.
C15_ConfigErrors ==
    [][pc = "idle" =>
          \A options \in AllOptionObjects :
             (\E geolocation \in BOOLEAN :
                 create(options, <<"k", "m">>, geolocation))
             => IF options.selectors.map # "resolved"
                THEN /\ thrown' = "Map element selector is required!"
                     /\ UNCHANGED <<mapOptions, pc, gMap, currentLocation>>
                ELSE IF /\ options.selectors.country = "resolved"
                        /\ options.selectors.autocomplete # "resolved"
                THEN /\ thrown' = "Autocomplete input selector is required to scope autocomplete results by country!"
                     /\ UNCHANGED <<mapOptions, pc, gMap, currentLocation>>
                ELSE /\ mapOptions' = options
                     /\ thrown' \notin
                           {"Map element selector is required!",
                            "Autocomplete input selector is required to scope autocomplete results by country!"}]_vars

\* A config with country and autocomplete both resolvable was accepted, and a
\* later one with a country but an unresolvable autocomplete was refused.
C15_Witness ==
    /\ mapOptions # Null
    /\ mapOptions.selectors.country = "resolved"
    /\ mapOptions.selectors.autocomplete = "resolved"
    /\ thrown = "Autocomplete input selector is required to scope autocomplete results by country!"

-----------------------------------------------------------------------------
(* C16: the zoom of a radius, over radii on both sides of every threshold *)

\* The decimal numeral of n, as the radius input would hold it.
RECURSIVE ToDigits(_)
ToDigits(n) ==
    IF n < 10 THEN <<Digits[n + 1]>>
    ELSE Append(ToDigits(n \div 10), Digits[(n % 10) + 1])

ZoomThresholds == {10000, 20000, 40000, 75000, 100000, 200000}

ZoomRadii ==
    {k * 2500 : k \in 1..100}
       \cup {b - 1 : b \in ZoomThresholds} \cup {b + 1 : b \in ZoomThresholds}

\* A widget with a radius input and an initial location.
ZoomOptions ==
    [selectors |-> [map |-> "resolved", autocomplete |-> "omitted",
                    radius |-> "resolved", country |-> "omitted"],
     location |-> Coordinate(1 * Degree, 1 * Degree),
     zoom |-> 0,
     events |-> "empty"]

NextZoom ==
    \/ mapLoadedListener
    \/ \E r \in ZoomRadii : create(ZoomOptions, ToDigits(r), FALSE)
    \/ \E r \in ZoomRadii : radiusChange(ToDigits(r))

SpecZoom == Init /\ [][NextZoom]_vars

\* The table of the specification.
ZoomTable(r) ==
    CASE r <= 10000 -> 11
      [] r > 10000 /\ r <= 20000 -> 10
      [] r > 20000 /\ r <= 40000 -> 9
      [] r > 40000 /\ r <= 75000 -> 8
      [] r > 75000 /\ r <= 100000 -> 7
      [] r > 100000 /\ r <= 200000 -> 6
      [] r > 200000 -> 4

\* getZoom is called with the radius input reading r: by createMap, or by the
\* radius input's change listener.
GetZoomCalled(r) ==
    \/ /\ isLoaded
       /\ create(ZoomOptions, ToDigits(r), FALSE)
    \/ /\ radiusListener
       /\ radiusChange(ToDigits(r))

\* C16: every call of getZoom with radius r returns 11 for r <= 10000, 10 for
\* r <= 20000, 9 for r <= 40000, 8 for r <= 75000, 7 for r <= 100000, 6 for
\* r <= 200000 and 4 above, and so never more for a larger radius.  (The code
\* fails it: the call throws where zoom is undeclared.)
ClaimC16_ZoomTable ==
    [][\A r \in ZoomRadii :
          (radiusInput' = ToDigits(r) /\ GetZoomCalled(r))
          => /\ gMap' # Null
             /\ gMap'.zoom = ZoomTable(r)
             /\ \A q \in ZoomRadii : q <= r => ZoomTable(q) >= gMap'.zoom]_vars

\* Where the global scope has a binding named zoom, the call returns what the
\* table says.
ZoomTableWhereDeclared ==
    [][\A r \in ZoomRadii :
          (zoomDeclared /\ radiusInput' = ToDigits(r) /\ GetZoomCalled(r))
          => /\ gMap' # Null
             /\ gMap'.zoom = ZoomTable(r)
             /\ \A q \in ZoomRadii : q <= r => ZoomTable(q) >= gMap'.zoom]_vars

-----------------------------------------------------------------------------
(* C17: the address components of a response, over responses whose          *)
(* components carry none, one or several of the recognized tags             *)

AddressParts ==
    { Component({"locality"}, "Accra", "Accra"),
      Component({"locality", "political"}, "Tema", "Tema"),
      Component({"sublocality", "political"}, "Osu", "Osu"),
      Component({"locality", "sublocality", "political"}, "Nima", "Nima"),
      Component({"administrative_area_level_1", "country", "political"},
                "SG", "Singapore"),
      Component({"political"}, "X", "X") }

AddressResults ==
    { [address_components |-> components, formatted_address |-> "somewhere"] :
         components \in {<<>>} \cup [1..1 -> AddressParts]
                               \cup [1..2 -> AddressParts] }

AddressResponses ==
    [status : {StatusOK},
     results : {<<r>> : r \in AddressResults} \cup {<<ResultKumasi, ResultAccra>>}]

\* A widget with an autocomplete input and a locationChanged listener.
AddressOptions ==
    [selectors |-> [map |-> "resolved", autocomplete |-> "resolved",
                    radius |-> "omitted", country |-> "omitted"],
     location |-> Coordinate(1 * Degree, 1 * Degree),
     zoom |-> 0,
     events |-> "listener"]

NextAddress ==
    \/ mapLoadedListener
    \/ create(AddressOptions, <<>>, FALSE)
    \/ \E geometry \in Places : autocompleteHandler(geometry)
    \/ \E i \in 1..MaxCalls, response \in AddressResponses :
          geocodeCallback(i, response)

SpecAddress == Init /\ [][NextAddress]_vars

\* The names of the first component whose type tags include tag, null names
\* when there is none.
FirstTagged(components, tag) ==
    LET tagged == {i \in 1..Len(components) : tag \in components[i].types}
    IN IF tagged = {} THEN NullName
       ELSE LET i == CHOOSE i \in tagged : \A j \in tagged : i <= j
            IN [longName |-> components[i].long_name,
                shortName |-> components[i].short_name]

\* The record the specification describes for a results array.
FirstMatchPerTag(results) ==
    LET components == results[1].address_components
    IN [postalCode |-> FirstTagged(components, "postal_code"),
        streetNumber |-> FirstTagged(components, "street_number"),
        streetName |-> FirstTagged(components, "route"),
        city |-> FirstTagged(components, "locality"),
        district |-> FirstTagged(components, "sublocality"),
        stateOrProvince |-> FirstTagged(components, "administrative_area_level_1"),
        country |-> FirstTagged(components, "country"),
        formattedAddress |-> results[1].formatted_address]

\* C17: after every successful response the address components are, slot by
\* slot, the names of the first component of the first result that carries
\* the slot's tag (a component with several recognized tags counting for each
\* of them), null where no component of this response carries it, whatever an
\* earlier response left.  (The code fails it for a component with several
\* recognized tags.)
ClaimC17_FirstMatchPerTag ==
    [][\A i \in 1..Len(calls), response \in AddressResponses :
          (calls'[i].response = response /\ geocodeCallback(i, response))
          => geocoder'.addressComponents = FirstMatchPerTag(response.results)]_vars

\* The names of the first component the chain assigns to slot.
FirstBySlot(components, slot) ==
    LET assigned == {i \in 1..Len(components) : SlotOf(components[i]) = slot}
    IN IF assigned = {} THEN NullName
       ELSE LET i == CHOOSE i \in assigned : \A j \in assigned : i <= j
            IN [longName |-> components[i].long_name,
                shortName |-> components[i].short_name]

\* What does hold: each slot has the first component the chain assigns to it,
\* every component counting for one slot only, and nothing of an earlier
\* response remains.
AddressFirstBySlot ==
    [][\A i \in 1..Len(calls), response \in AddressResponses :
          (calls'[i].response = response /\ geocodeCallback(i, response))
          => /\ \A slot \in DOMAIN EmptyAddressComponents \ {"formattedAddress"} :
                   geocoder'.addressComponents[slot] =
                      FirstBySlot(response.results[1].address_components, slot)
             /\ geocoder'.addressComponents.formattedAddress =
                   response.results[1].formatted_address]_vars

-----------------------------------------------------------------------------
(* C18 *)

\* C18: a successful answer to a place selection's geocode request is applied
\* whenever it arrives: it writes the address components and the autocomplete
\* input from its own response and leaves currentLocation as it is, also when
\* the widget has moved to another coordinate since the request was made.
C18_LateAnswerApplies ==
    [][\A i \in 1..Len(calls), response \in Responses :
          (/\ calls[i].handlers
           /\ Outcome(response) = "resolve"
           /\ calls'[i].response = response
           /\ geocodeCallback(i, response))
          => /\ geocoder'.addressComponents = Resolved(response)
             /\ autocompleteInput' = response.results[1].formatted_address
             /\ currentLocation' = currentLocation]_vars

\* The address data describes the coordinate of the first selection, whose
\* answer is in, while the widget is at the coordinate of a second selection
\* that is still unanswered.
C18_Witness ==
    /\ Len(calls) = 2
    /\ calls[1].handlers /\ calls[2].handlers
    /\ calls[1].promise = "fulfilled"
    /\ calls[2].request = "inflight"
    /\ currentLocation = calls[2].location
    /\ currentLocation # calls[1].location
    /\ geocoder.addressComponents = Resolved(calls[1].response)
    /\ autocompleteInput = calls[1].response.results[1].formatted_address

-----------------------------------------------------------------------------
(* C19 *)

\* C19: every place selection with a geometry makes a provider request of its
\* own, also for a coordinate another request is in flight for, and leaves the
\* other invocations alone; and every successful answer to such a request
\* gives its own response's address components to the promise, its formatted
\* address to the autocomplete input and its address components to the
\* locationChanged listener, and touches no other invocation.
C19_CallsIndependent ==
    [][/\ \A geometry \in Places :
             (currentLocation' = geometry /\ autocompleteHandler(geometry))
             => /\ Len(calls') = Len(calls) + 1
                /\ calls'[Len(calls')].request = "inflight"
                /\ calls'[Len(calls')].location = geometry
                /\ \A j \in 1..Len(calls) : calls'[j] = calls[j]
       /\ \A i \in 1..Len(calls), response \in Responses :
             (/\ calls[i].handlers
              /\ Outcome(response) = "resolve"
              /\ calls'[i].response = response
              /\ geocodeCallback(i, response))
             => /\ calls'[i].promise = "fulfilled"
                /\ calls'[i].value = Resolved(response)
                /\ autocompleteInput' = response.results[1].formatted_address
                /\ mapOptions.events = "listener"
                      => notified' = Append(notified, Resolved(response))
                /\ \A j \in 1..Len(calls) : j # i => calls'[j] = calls[j]]_vars

\* Two selections of the same coordinate made a request each; the second was
\* answered first, with another response than the first, and the listener
\* was given each answer's own address components.
C19_Witness ==
    /\ Len(calls) = 2
    /\ calls[1].handlers /\ calls[2].handlers
    /\ calls[1].location = calls[2].location
    /\ calls[1].promise = "fulfilled" /\ calls[2].promise = "fulfilled"
    /\ calls[1].response # calls[2].response
    /\ calls[1].value = Resolved(calls[1].response)
    /\ calls[2].value = Resolved(calls[2].response)
    /\ notified = <<calls[2].value, calls[1].value>>
    /\ autocompleteInput = calls[1].response.results[1].formatted_address

-----------------------------------------------------------------------------
(* C20 *)

\* C20: wherever the autocomplete listener is attached, a place selection
\* without geometry can happen, and it cannot change currentLocation, the map
\* center, the marker position, the circle center, the address components or
\* the autocomplete input, make a geocode request, or call the
\* locationChanged listener.
C20_NoGeometryNoOp ==
    autocomplete =>
       /\ ENABLED autocompleteHandler(Null)
       /\ ~ENABLED (/\ autocompleteHandler(Null)
                    /\ <<currentLocation, gMap, marker, circle, geocoder,
                         autocompleteInput, calls, notified>>'
                          # <<currentLocation, gMap, marker, circle, geocoder,
                              autocompleteInput, calls, notified>>)

\* A place without geometry can be selected while the request of an earlier
\* selection is in flight and another request could still be made.
C20_Witness ==
    /\ autocomplete
    /\ ENABLED autocompleteHandler(Null)
    /\ Len(calls) = 1
    /\ calls[1].request = "inflight"
    /\ currentLocation = calls[1].location
    /\ CanCall

=============================================================================
